---- MODULE Spec2Model ----
(***************************************************************************)
(* HierarchyTable (src/src/significantChangesAlerts/significantChangesAlerts.js, *)
(* lines 91-405): a flat HTML table is turned into a collapsible tree.     *)
(*                                                                         *)
(* Strings are sequences of one-character strings.  A hierarchy item is a  *)
(* record [id, name, parent, children], children being a sequence of       *)
(* items.  A table row is known by its position in the table body before   *)
(* construction (1..MaxNodes); rowheaders[id].index is 0-based as in the   *)
(* source.  The value `undefined` of meta.collapsed is the string          *)
(* "undefined", and true/false are "true"/"false", so that the three can   *)
(* be compared.                                                            *)
(***************************************************************************)
EXTENDS Integers, Sequences, FiniteSets, TLC

\* number of nodes of the input hierarchy (and of rows of the input table)
MaxNodes == 4

\* number of clicks made before the searches, where clicks are counted
MaxClicks == 1

Nodes == 1..MaxNodes
RowIds == 1..MaxNodes

\* item.parent of a top-level item: the empty string (falsy, length 0)
NoParent == 0
\* target of an event dispatched on the table element (`this.source`)
SourceTarget == 0
\* no attribute set on a row
NoAttr == 0

Letters == <<"a", "b", "c", "d", "e", "f", "g", "h">>

Undefined == "undefined"

----------------------------------------------------------------------------
(* Strings *)

\* String.prototype.trim on the left
RECURSIVE TrimLeft(_)
TrimLeft(s) ==
  IF s # <<>> /\ Head(s) = " " THEN TrimLeft(Tail(s)) ELSE s

\* String.prototype.trim on the right
RECURSIVE TrimRight(_)
TrimRight(s) ==
  IF s # <<>> /\ s[Len(s)] = " " THEN TrimRight(SubSeq(s, 1, Len(s) - 1)) ELSE s

\* String.prototype.trim
Trim(s) == TrimRight(TrimLeft(s))

\* s.split('/').reverse()[0] : what follows the last '/' of s
RECURSIVE LastSegment(_)
LastSegment(s) ==
  IF \E i \in 1..Len(s) : s[i] = "/"
  THEN LastSegment(SubSeq(s, (CHOOSE i \in 1..Len(s) : s[i] = "/") + 1, Len(s)))
  ELSE s

\* item.name.split('/').reverse()[0].trim()
NameOf(flatName) == Trim(LastSegment(flatName))

\* !v of JavaScript for a value of meta.collapsed
Not(v) == IF v = "true" THEN "false" ELSE "true"

\* truthiness of a value of meta.collapsed
Truthy(v) == v = "true"

----------------------------------------------------------------------------
(* The inputs: hierarchies over Nodes, given by a parent map *)

\* a forest over Nodes: the parent of a node has a smaller id, 0 for a root
ParentMaps == {p \in [Nodes -> 0..MaxNodes] : \A n \in Nodes : p[n] < n}

\* the nodes of set S in increasing order
RECURSIVE SortedSeq(_)
SortedSeq(S) ==
  IF S = {} THEN <<>>
  ELSE LET m == CHOOSE x \in S : \A y \in S : x <= y
       IN <<m>> \o SortedSeq(S \ {m})

ChildIds(p, n) == SortedSeq({m \in Nodes : p[m] = n})

\* the '/'-separated path of node n; even nodes have a blank after the '/'
RECURSIVE PathName(_, _)
PathName(p, n) ==
  IF p[n] = NoParent THEN <<Letters[n]>>
  ELSE PathName(p, p[n]) \o <<"/">>
         \o (IF n % 2 = 0 THEN <<" ">> ELSE <<>>) \o <<Letters[n]>>

RECURSIVE Item(_, _)
Item(p, n) ==
  LET ch == ChildIds(p, n)
  IN [id |-> n, name |-> PathName(p, n), parent |-> p[n],
      children |-> [k \in 1..Len(ch) |-> Item(p, ch[k])]]

\* the `hierarchy` argument of the constructor for parent map p
Forest(p) ==
  LET roots == ChildIds(p, NoParent)
  IN [k \in 1..Len(roots) |-> Item(p, roots[k])]

\* every item of a hierarchy, at any depth
RECURSIVE AllItems(_)
AllItems(h) ==
  UNION {{h[k]} \cup AllItems(h[k].children) : k \in 1..Len(h)}

----------------------------------------------------------------------------
(* The state *)

VARIABLES
  hierarchy,   \* constructor argument `hierarchy`
  rowheaders,  \* constructor argument `rowheaders`: id -> [index]
  pc,          \* "new" before `new HierarchyTable(...)`, "ready" after it,
               \* "failed" when the constructor threw
  column,      \* this.column, the constructor argument `hierColumn`
  searching,   \* `_searching` of this.search
  flat,        \* this._flat
  data,        \* this.data: the records [label, meta]; <<>> stands for null
  rows,        \* the <tr> elements: classes, attributes, header cell
  source,      \* the <table>: its classes and the order of rows in <tbody>
  log,         \* what the last operation did to the DOM, in order
  err,         \* TRUE when the last operation ended in an uncaught exception
  lastOp,      \* the last operation: [op, arg]
  pre,         \* history: flat, data and rows as they were before the last operation
  clicks,      \* history: the number of clicks counted so far
  pre2         \* history: the same before the last two operations, when these were
               \* two clicks on the same button or two assignments of `flat`

vars ==
  <<hierarchy, rowheaders, pc, column, searching, flat, data, rows, source, log,
    err, lastOp, pre, pre2, clicks>>

inputs == <<hierarchy, rowheaders>>

\* the object `this` as the handlers see it at the start of an operation
This ==
  [flat |-> flat, data |-> data, rows |-> rows, source |-> source,
   column |-> column, searching |-> searching, log |-> <<>>, err |-> FALSE]

\* history: no state recorded
NoSnapshot == [flat |-> FALSE, data |-> <<>>, rows |-> <<>>]

\* history: the current state
Snapshot == [flat |-> flat, data |-> data, rows |-> rows]

\* index in this.data of the record with the given id (0 when there is none)
IndexOfId(d, id) ==
  IF \E i \in 1..Len(d) : d[i].meta.id = id
  THEN CHOOSE i \in 1..Len(d) : d[i].meta.id = id
  ELSE 0

----------------------------------------------------------------------------
(* DOM helpers *)

AddClass(t, r, c) == [t EXCEPT !.rows[r].classes = @ \cup {c}]

RemoveClass(t, r, c) == [t EXCEPT !.rows[r].classes = @ \ {c}]

\* element.dispatchEvent(event)
Dispatch(t, name, target) ==
  [t EXCEPT !.log = Append(@, [kind |-> "event", name |-> name, target |-> target])]

----------------------------------------------------------------------------
(* setupMeta: the accessors of a record's meta *)

\* the mutant of SetHidden: the setter also expands the record
SetHiddenTouchesCollapsed(t, i, val) ==
  LET r == t.data[i].meta.row
      t1 == [t EXCEPT !.data[i].meta.hidden = TRUE,
                      !.data[i].meta.collapsed = IF val THEN @ ELSE "false"]
      t2 == IF val THEN AddClass(t1, r, "reportal-hidden-row")
                   ELSE RemoveClass(t1, r, "reportal-hidden-row")
  IN [t2 EXCEPT !.log = Append(@, [kind |-> "hidden",
                                   name |-> IF val THEN "add" ELSE "remove",
                                   target |-> r])]

\* set hidden(val): _hidden = true whatever val is, then the row class follows val
SetHidden(t, i, val) ==
  LET r == t.data[i].meta.row
      t1 == [t EXCEPT !.data[i].meta.hidden = TRUE]
      t2 == IF val THEN AddClass(t1, r, "reportal-hidden-row")
                   ELSE RemoveClass(t1, r, "reportal-hidden-row")
  IN [t2 EXCEPT !.log = Append(@, [kind |-> "hidden",
                                   name |-> IF val THEN "add" ELSE "remove",
                                   target |-> r])]

\* `typeof val != undefined`: typeof gives a string, which never equals undefined
TypeofGuard(val) == TRUE

\* set collapsed(val)
SetCollapsed(t, i, val) ==
  LET r == t.data[i].meta.row IN
  IF TypeofGuard(val)
  THEN LET t1 == [t EXCEPT !.data[i].meta.collapsed = val]
       IN IF Truthy(val)
          THEN Dispatch(RemoveClass(AddClass(t1, r, "reportal-collapsed-row"),
                                    r, "reportal-uncollapsed-row"),
                        "reportal-table-hierarchy-collapsed", r)
          ELSE Dispatch(RemoveClass(AddClass(t1, r, "reportal-uncollapsed-row"),
                                    r, "reportal-collapsed-row"),
                        "reportal-table-hierarchy-uncollapsed", r)
  ELSE t

\* setupMeta({...}): the meta object; hidden defaults to true
SetupMeta(row, id, flatName, name, parent, level, hidden, collapsed, hasChildren) ==
  [row |-> row, id |-> id, flatName |-> flatName, name |-> name,
   parent |-> parent, level |-> level, hasChildren |-> hasChildren,
   hidden |-> hidden, collapsed |-> collapsed]

----------------------------------------------------------------------------
(* View mode *)

\* the mutant of UpdateCategoryLabel: the label is refreshed in tree mode only
UpdateCategoryLabelTreeOnly(t, i) ==
  IF t.flat THEN t
  ELSE [t EXCEPT !.data[i].label = t.data[i].meta.name]

\* updateCategoryLabel(row): row[this.column] gets the label of the mode; the
\* local variable `label` gets it too, the cell of the table does not
UpdateCategoryLabel(t, i) ==
  [t EXCEPT !.data[i].label =
              IF t.flat THEN t.data[i].meta.flatName ELSE t.data[i].meta.name]

RECURSIVE UpdateLabelsFrom(_, _)
UpdateLabelsFrom(t, i) ==
  IF i > Len(t.data) THEN t
  ELSE UpdateLabelsFrom(UpdateCategoryLabel(t, i), i + 1)

\* the mutant of SetFlatOn: an event is dispatched only when the value changes
SetFlatOnChangeOnly(t, val) ==
  LET t1 == [t EXCEPT !.flat = val,
                      !.source.classes =
                         IF val THEN @ \cup {"reportal-heirarchy-flat-view"}
                                ELSE @ \ {"reportal-heirarchy-flat-view"}]
      t2 == UpdateLabelsFrom(t1, 1)
  IN IF t.flat = val THEN t2
     ELSE Dispatch(t2, IF val THEN "reportal-table-hierarchy-flat-view"
                              ELSE "reportal-table-hierarchy-tree-view", SourceTarget)

\* set flat(flat)
SetFlatOn(t, val) ==
  LET t1 == [t EXCEPT !.flat = val,
                      !.source.classes =
                         IF val THEN @ \cup {"reportal-heirarchy-flat-view"}
                                ELSE @ \ {"reportal-heirarchy-flat-view"}]
      t2 == UpdateLabelsFrom(t1, 1)
  IN Dispatch(t2, IF val THEN "reportal-table-hierarchy-flat-view"
                         ELSE "reportal-table-hierarchy-tree-view", SourceTarget)

----------------------------------------------------------------------------
(* Tree builder *)

\* clearLink(row): the drill-down link of the header cell becomes plain text
ClearLink(t, r) == [t EXCEPT !.rows[r].link = FALSE]

\* meta.row.children[col] is an element: the rows here have one cell, the
\* header cell, at index 0
HasCell(col) == col = 0

\* addCollapseButton(meta): the button becomes the first child of the header
\* cell; when row.children[this.column] is undefined, `.insertBefore` throws a
\* TypeError
AddCollapseButton(t, r) ==
  IF HasCell(t.column)
  THEN [t EXCEPT !.rows[r].button = TRUE,
                 !.rows[r].cellClasses = @ \cup {"reportal-hierarchical-cell"}]
  ELSE [t EXCEPT !.err = TRUE]

\* "level" + level.toString()
LevelClass(level) ==
  <<"level0", "level1", "level2", "level3", "level4", "level5", "level6",
    "level7">>[level + 1]

\* the mutant of Descend: the depth limit is missing
DescendAlways(level) == TRUE

\* `level < 2 ? ... parseHierarchy(item.children, level + 1, resultArray)`
Descend(level) == level < 2

\* the row of an item: querySelectorAll("tbody>tr")[this.rowheaders[item.id].index]
RowOf(t, id) == t.source.tbody[rowheaders[id].index + 1]

\* _isNumber(str): a string that holds no number, as every label here, is
\* returned as it is
IsNumber(str) == str

\* the value pushed for the header cell: its text when it has no child element,
\* its markup when the drill-down link is still there
CellValue(row) ==
  IF row.link THEN <<"<a>">> \o row.text \o <<"</a>">>
  ELSE IsNumber(Trim(row.text))

RECURSIVE parseHierarchy(_, _, _)
RECURSIVE ParseItems(_, _, _, _)

\* the body of the reduce callback of parseHierarchy for one item
ParseItem(item, level, t) ==
  LET r == RowOf(t, item.id)
      hasChildren == Len(item.children) > 0
      t1 == [t EXCEPT !.rows[r].selfId = item.id,
                      !.rows[r].classes = @ \cup {LevelClass(level)}]
      t2 == IF level > 0
            THEN ClearLink(AddClass(t1, r, "reportal-hidden-row"), r)
            ELSE t1
      t3 == AddClass(t2, r, IF hasChildren THEN "reportal-collapsed-row"
                                           ELSE "reportal-no-children")
      t4 == IF item.parent # NoParent
            THEN [t3 EXCEPT !.rows[r].parentAttr = item.parent]
            ELSE t3
      meta == SetupMeta(r, item.id, item.name, NameOf(item.name), item.parent,
                        level, TRUE,
                        IF hasChildren THEN "true" ELSE Undefined, hasChildren)
      t5 == [t4 EXCEPT !.data = Append(@, [label |-> CellValue(t4.rows[r]),
                                           meta |-> meta])]
      t6 == AddCollapseButton(t5, r)
      t7 == UpdateCategoryLabel(t6, Len(t6.data))
  IN IF t6.err THEN t6
     ELSE IF Descend(level) THEN parseHierarchy(item.children, level + 1, t7)
     ELSE t7

\* an exception thrown for one item ends the whole reduce
ParseItems(h, level, t, k) ==
  IF k > Len(h) \/ t.err THEN t
  ELSE ParseItems(h, level, ParseItem(h[k], level, t), k + 1)

\* parseHierarchy(hierarchy, level, array): t.data is the array being built
parseHierarchy(h, level, t) == ParseItems(h, level, t, 1)

\* tbody.appendChild(row): the row moves to the end of the table body
AppendChild(tbody, r) == SelectSeq(tbody, LAMBDA x : x # r) \o <<r>>

RECURSIVE AppendRows(_, _, _)
AppendRows(tbody, d, i) ==
  IF i > Len(d) THEN tbody
  ELSE AppendRows(AppendChild(tbody, d[i].meta.row), d, i + 1)

\* init(); when parseHierarchy throws, this.data is not assigned and no row
\* is moved
InitTable(t) ==
  LET t1 == parseHierarchy(hierarchy, 0, [t EXCEPT !.data = <<>>])
  IN IF t1.err THEN [t1 EXCEPT !.data = <<>>]
     ELSE [t1 EXCEPT !.source.leadingText = FALSE,
                     !.source.tbody = AppendRows(t1.source.tbody, t1.data, 1)]

\* setupSearch({searching}): `_searching` starts as the option given; the
\* class of the table is not touched
SetupSearch(t, srch) == [t EXCEPT !.searching = srch]

\* set searching(val) of this.search
SetSearchingOn(t, val) ==
  IF t.searching # val
  THEN [t EXCEPT !.searching = val,
                 !.source.classes =
                    IF "reportal-hierarchy-searching" \in @
                    THEN @ \ {"reportal-hierarchy-searching"}
                    ELSE @ \cup {"reportal-hierarchy-searching"}]
  ELSE t

\* constructor({source, hierarchy, rowheaders, hierColumn, flat, search})
Constructor(t, fl, col, srch) ==
  InitTable(SetupSearch(SetFlatOn([t EXCEPT !.column = col], fl), srch))

----------------------------------------------------------------------------
(* Visibility engine *)

\* the indices in this.data of the records whose parent is the record at i
ChildrenIdx(d, i) ==
  SortedSeq({j \in 1..Len(d) : d[j].meta.parent = d[i].meta.id})

\* the hidden setter called with false for each record of seq, from the k-th on
RECURSIVE RevealFrom(_, _, _)
RevealFrom(t, seq, k) ==
  IF k > Len(seq) THEN t
  ELSE RevealFrom(SetHidden(t, seq[k], FALSE), seq, k + 1)

\* the mutant of ForEachChild: expanding a record also shows the children of
\* its children
RECURSIVE ForEachChildDeep(_, _, _, _)
ForEachChildDeep(t, i, children, k) ==
  IF k > Len(children) THEN t
  ELSE LET c == children[k] IN
       IF Truthy(t.data[i].meta.collapsed)
       THEN LET t1 == SetHidden(t, c, TRUE) IN
            IF t1.data[c].meta.hasChildren /\ ~Truthy(t1.data[c].meta.collapsed)
            THEN [SetCollapsed(t1, c, "true") EXCEPT !.err = TRUE]
            ELSE ForEachChildDeep(t1, i, children, k + 1)
       ELSE ForEachChildDeep(
              RevealFrom(SetHidden(t, c, FALSE), ChildrenIdx(t.data, c), 1),
              i, children, k + 1)

RECURSIVE ForEachChild(_, _, _, _)
\* children.forEach(...) of toggleHiddenRows, from the k-th child on.  The
\* argument `row.meta` of the recursive call names a variable that is not in
\* scope: evaluating it throws a ReferenceError, which ends the handler.
ForEachChild(t, i, children, k) ==
  IF k > Len(children) THEN t
  ELSE LET c == children[k] IN
       IF Truthy(t.data[i].meta.collapsed)
       THEN LET t1 == SetHidden(t, c, TRUE) IN
            IF t1.data[c].meta.hasChildren /\ ~Truthy(t1.data[c].meta.collapsed)
            THEN [SetCollapsed(t1, c, "true") EXCEPT !.err = TRUE]
            ELSE ForEachChild(t1, i, children, k + 1)
       ELSE ForEachChild(SetHidden(t, c, FALSE), i, children, k + 1)

\* toggleHiddenRows(meta)
toggleHiddenRows(t, i) ==
  IF t.data[i].meta.hasChildren
  THEN ForEachChild(t, i, ChildrenIdx(t.data, i), 1)
  ELSE t

\* the mutant of ClickButton: the rows are hidden or shown first, the event
\* is dispatched last
ClickButtonEventLast(t, i) ==
  LET v == Not(t.data[i].meta.collapsed)
  IN SetCollapsed(toggleHiddenRows([t EXCEPT !.data[i].meta.collapsed = v], i),
                  i, v)

\* the click listener added by addCollapseButton
ClickButton(t, i) ==
  toggleHiddenRows(SetCollapsed(t, i, Not(t.data[i].meta.collapsed)), i)

----------------------------------------------------------------------------
(* Search engine *)

UpperLetters == <<"A", "B", "C", "D", "E", "F", "G", "H">>

\* the lower-case form of a character (flag `i` of the RegExp)
Lower(c) ==
  IF \E k \in 1..Len(UpperLetters) : UpperLetters[k] = c
  THEN Letters[CHOOSE k \in 1..Len(UpperLetters) : UpperLetters[k] = c]
  ELSE c

\* label.match(new RegExp(str, 'gi')) is not null, for a str without
\* metacharacters: str occurs in label, letter case ignored; the empty
\* pattern occurs in every label
RegExpMatch(label, str) ==
  \E i \in 0..(Len(label) - Len(str)) :
    \A k \in 1..Len(str) : Lower(label[i + k]) = Lower(str[k])

\* the strings searched for
Queries == << <<>>, <<"a">>, <<"B">>, <<"c">>, <<"/", " ">>, <<"z">> >>

\* the mutant of uncollapseParents: only the direct parent is expanded
uncollapseParentOnly(t, i) ==
  IF t.data[i].meta.parent # NoParent
  THEN LET p == IndexOfId(t.data, t.data[i].meta.parent)
           t1 == IF Truthy(t.data[p].meta.collapsed)
                 THEN SetCollapsed(t, p, "false") ELSE t
       IN AddClass(t1, t1.data[p].meta.row, "matched-search")
  ELSE t

RECURSIVE uncollapseParents(_, _)
\* uncollapseParents(meta)
uncollapseParents(t, i) ==
  IF t.data[i].meta.parent # NoParent
  THEN LET p == IndexOfId(t.data, t.data[i].meta.parent)
           t1 == IF Truthy(t.data[p].meta.collapsed)
                 THEN SetCollapsed(t, p, "false") ELSE t
           t2 == AddClass(t1, t1.data[p].meta.row, "matched-search")
       IN uncollapseParents(t2, p)
  ELSE t

RECURSIVE displayChildren(_, _)
RECURSIVE DisplayEach(_, _, _)

\* the forEach of displayChildren over the children, from the k-th on
DisplayEach(t, children, k) ==
  IF k > Len(children) THEN t
  ELSE DisplayEach(
         displayChildren(
           AddClass(t, t.data[children[k]].meta.row, "matched-search"),
           children[k]),
         children, k + 1)

\* the mutant of displayChildren: the children are shown, not only painted
displayChildrenRevealing(t, i) ==
  IF t.data[i].meta.hasChildren
  THEN RevealFrom(DisplayEach(t, ChildrenIdx(t.data, i), 1),
                  ChildrenIdx(t.data, i), 1)
  ELSE t

\* displayChildren(meta)
displayChildren(t, i) ==
  IF t.data[i].meta.hasChildren
  THEN DisplayEach(t, ChildrenIdx(t.data, i), 1)
  ELSE t

\* the label a search looks at: flatName in flat mode, name in tree mode
SearchLabel(t, i) ==
  IF t.flat THEN t.data[i].meta.flatName ELSE t.data[i].meta.name

\* this.data.filter(...) of searchRowheaders: the indices of the matches
Matched(t, str) ==
  SortedSeq({i \in 1..Len(t.data) : RegExpMatch(SearchLabel(t, i), str)})

RECURSIVE ForEachMatched(_, _, _)
\* matched.forEach(...) of searchRowheaders, from the k-th match on
ForEachMatched(t, matched, k) ==
  IF k > Len(matched) THEN t
  ELSE LET i == matched[k]
           t1 == AddClass(t, t.data[i].meta.row, "matched-search")
       IN ForEachMatched(displayChildren(uncollapseParents(t1, i), i),
                         matched, k + 1)

\* searchRowheaders(str)
searchRowheaders(t, str) == ForEachMatched(t, Matched(t, str), 1)

----------------------------------------------------------------------------
(* The operations *)

\* the table as the page holds it before construction: row k is the row of the
\* node with rowheaders index k-1, its header cell a link with the node's path
Init ==
  /\ \E p \in ParentMaps :
       /\ hierarchy = Forest(p)
       /\ rowheaders = [n \in Nodes |-> [index |-> n - 1]]
       /\ rows = [r \in RowIds |->
                    [classes |-> {}, cellClasses |-> {}, selfId |-> NoAttr,
                     parentAttr |-> NoAttr, link |-> TRUE, button |-> FALSE,
                     text |-> PathName(p, r)]]
  /\ pc = "new"
  /\ column = 0
  /\ searching = FALSE
  /\ flat = FALSE
  /\ data = <<>>
  /\ source = [classes |-> {}, leadingText |-> TRUE,
               tbody |-> [k \in 1..MaxNodes |-> k]]
  /\ log = <<>>
  /\ err = FALSE
  /\ lastOp = [op |-> "none", arg |-> 0]
  /\ pre = NoSnapshot
  /\ pre2 = NoSnapshot
  /\ clicks = 0

\* the history variables after operation op with argument arg
Record(op, arg) ==
  /\ lastOp' = [op |-> op, arg |-> arg]
  /\ pre' = Snapshot
  /\ pre2' = IF /\ op \in {"click", "flat"}
                /\ lastOp.op = op
                /\ op = "click" => lastOp.arg = arg
             THEN pre ELSE NoSnapshot

Apply(t) ==
  /\ column' = t.column
  /\ searching' = t.searching
  /\ flat' = t.flat
  /\ data' = t.data
  /\ rows' = t.rows
  /\ source' = t.source
  /\ log' = t.log
  /\ err' = t.err

\* new HierarchyTable({source, hierarchy, rowheaders, hierColumn: col,
\* flat: fl, search: {searching: srch}})
Construct(fl, col, srch) ==
  /\ pc = "new"
  /\ LET t == Constructor(This, fl, col, srch)
     IN /\ pc' = IF t.err THEN "failed" ELSE "ready"
        /\ Apply(t)
  /\ Record("construct", IF fl THEN 1 ELSE 0)
  /\ UNCHANGED <<inputs, clicks>>

\* a click on the collapse button of the i-th record
ClickRow(i) ==
  /\ pc = "ready"
  /\ i \in 1..Len(data)
  /\ Apply(ClickButton(This, i))
  /\ Record("click", i)
  /\ UNCHANGED <<inputs, pc>>

Click(i) == ClickRow(i) /\ UNCHANGED clicks

\* the same click, counted: one of the at most MaxClicks clicks that come
\* before the first search
ClickBeforeSearch(i) ==
  /\ clicks < MaxClicks
  /\ lastOp.op \in {"construct", "click"}
  /\ ClickRow(i)
  /\ clicks' = clicks + 1

\* table.flat = fl
SetFlat(fl) ==
  /\ pc = "ready"
  /\ Apply(SetFlatOn(This, fl))
  /\ Record("flat", IF fl THEN 1 ELSE 0)
  /\ UNCHANGED <<inputs, pc, clicks>>

\* table.searchRowheaders(Queries[q])
Search(q) ==
  /\ pc = "ready"
  /\ Apply(searchRowheaders(This, Queries[q]))
  /\ Record("search", q)
  /\ UNCHANGED <<inputs, pc, clicks>>

\* table.search.searching = val
SetSearching(val) ==
  /\ pc = "ready"
  /\ Apply(SetSearchingOn(This, val))
  /\ Record("searching", IF val THEN 1 ELSE 0)
  /\ UNCHANGED <<inputs, pc, clicks>>

Next ==
  \/ \E fl \in BOOLEAN : Construct(fl, 0, FALSE)
  \/ \E i \in 1..MaxNodes : Click(i)
  \/ \E fl \in BOOLEAN : SetFlat(fl)

Spec == Init /\ [][Next]_vars

\* construction, a few clicks, then searches
NextSearch ==
  \/ \E fl \in BOOLEAN : Construct(fl, 0, FALSE)
  \/ \E i \in 1..MaxNodes : ClickBeforeSearch(i)
  \/ \E q \in 1..Len(Queries) : Search(q)

SpecSearch == Init /\ [][NextSearch]_vars

\* construction with any configuration, and assignments of search.searching
NextConfig ==
  \/ \E fl, srch \in BOOLEAN : \E col \in {-1, 0} : Construct(fl, col, srch)
  \/ \E val \in BOOLEAN : SetSearching(val)
  \/ \E fl \in BOOLEAN : SetFlat(fl)

SpecConfig == Init /\ [][NextConfig]_vars

----------------------------------------------------------------------------
(* Relations between records *)

\* index of the record that is the parent of record i, 0 for a root
ParentIdx(d, i) == IndexOfId(d, d[i].meta.parent)

\* indices of the ancestors of record i: parent, grandparent
RECURSIVE AncestorsIdx(_, _)
AncestorsIdx(d, i) ==
  IF ParentIdx(d, i) = 0 THEN {}
  ELSE {ParentIdx(d, i)} \cup AncestorsIdx(d, ParentIdx(d, i))

\* indices of the descendants of record i: children, grandchildren
DescendantsIdx(d, i) == {j \in 1..Len(d) : i \in AncestorsIdx(d, j)}

HiddenClass(rs, d, i) == "reportal-hidden-row" \in rs[d[i].meta.row].classes

\* the last two operations were clicks on the button of record i
ClickedTwice(i) ==
  /\ lastOp = [op |-> "click", arg |-> i]
  /\ pre2 # NoSnapshot

----------------------------------------------------------------------------
(* C1 *)

\* C1: after construction and any toggles, a record's hidden flag is true
\* exactly when one of its ancestors is collapsed.
C1_HiddenIffAncestorCollapsed ==
  pc = "ready" =>
    \A i \in 1..Len(data) :
      data[i].meta.hidden <=>
        \E a \in AncestorsIdx(data, i) : data[a].meta.collapsed = "true"

----------------------------------------------------------------------------
(* C2 *)

\* the forest in depth-first pre-order, each node with its depth
RECURSIVE PreOrder(_, _)
RECURSIVE PreOrderFrom(_, _, _)
PreOrderFrom(h, depth, k) ==
  IF k > Len(h) THEN <<>>
  ELSE <<[id |-> h[k].id, level |-> depth]>>
         \o PreOrder(h[k].children, depth + 1)
         \o PreOrderFrom(h, depth, k + 1)
PreOrder(h, depth) == PreOrderFrom(h, depth, 1)

\* C2: the record list is the pre-order of the forest without the nodes
\* deeper than level 2, and each record's level is the depth of its node.
C2_RecordsArePreOrderToDepth2 ==
  pc = "ready" =>
    [i \in 1..Len(data) |-> [id |-> data[i].meta.id, level |-> data[i].meta.level]]
      = SelectSeq(PreOrder(hierarchy, 0), LAMBDA e : e.level <= 2)

\* a forest with a node below level 2 was parsed: the node has no record,
\* its parent at level 2 has one
C2_Witness ==
  /\ pc = "ready"
  /\ \E it \in AllItems(hierarchy) : IndexOfId(data, it.id) = 0
  /\ \E i \in 1..Len(data) : data[i].meta.level = 2 /\ data[i].meta.hasChildren

----------------------------------------------------------------------------
(* C3 *)

\* C3 as stated: two clicks in a row on the same button leave the hidden and
\* collapsed flags of every descendant as they were before the first click.
C3_DoubleToggleRestores ==
  \A i \in 1..Len(data) :
    ClickedTwice(i) =>
      \A j \in DescendantsIdx(data, i) :
        /\ data[j].meta.hidden = pre2.data[j].meta.hidden
        /\ data[j].meta.collapsed = pre2.data[j].meta.collapsed

\* every descendant of record i that has children is collapsed in d
SubtreeCollapsed(d, i) ==
  \A j \in DescendantsIdx(d, i) :
    d[j].meta.hasChildren => d[j].meta.collapsed = "true"

\* C3 amended: two clicks in a row on the same button leave the hidden and
\* collapsed flags of every descendant as they were before the first click,
\* when every descendant that has children was collapsed before the first.
C3_DoubleToggleRestoresCollapsedSubtree ==
  \A i \in 1..Len(data) :
    ClickedTwice(i) /\ SubtreeCollapsed(pre2.data, i) =>
      \A j \in DescendantsIdx(data, i) :
        /\ data[j].meta.hidden = pre2.data[j].meta.hidden
        /\ data[j].meta.collapsed = pre2.data[j].meta.collapsed

\* an expanded record with a collapsed child and a grandchild was collapsed
\* and expanded again; the first click hid the child
C3_Witness ==
  \E i \in 1..Len(data) :
    /\ ClickedTwice(i)
    /\ SubtreeCollapsed(pre2.data, i)
    /\ pre2.data[i].meta.collapsed = "false"
    /\ pre.data[i].meta.collapsed = "true"
    /\ data[i].meta.collapsed = "false"
    /\ \E j \in DescendantsIdx(data, i) :
         /\ data[j].meta.hasChildren
         /\ DescendantsIdx(data, j) # {}
         /\ ~HiddenClass(pre2.rows, data, j)
         /\ HiddenClass(pre.rows, data, j)

----------------------------------------------------------------------------
(* C4 *)

\* C4: after a click that collapses a record, every descendant is hidden and
\* every descendant that has children is collapsed.
C4_CollapseCascades ==
  \A i \in 1..Len(data) :
    lastOp = [op |-> "click", arg |-> i] /\ data[i].meta.collapsed = "true" =>
      \A j \in DescendantsIdx(data, i) :
        /\ data[j].meta.hidden
        /\ data[j].meta.hasChildren => data[j].meta.collapsed = "true"

----------------------------------------------------------------------------
(* C5 *)

\* C5: a click that expands a record changes the hidden flag and the hidden
\* class of its direct children only, and the collapsed flag of no other
\* record; a grandchild below a collapsed child stays hidden.
C5_ExpandRevealsChildrenOnly ==
  \A i \in 1..Len(data) :
    lastOp = [op |-> "click", arg |-> i] /\ data[i].meta.collapsed = "false" =>
      /\ \A j \in 1..Len(data) :
           /\ ParentIdx(data, j) # i =>
                /\ data[j].meta.hidden = pre.data[j].meta.hidden
                /\ HiddenClass(rows, data, j) = HiddenClass(pre.rows, data, j)
           /\ j # i => data[j].meta.collapsed = pre.data[j].meta.collapsed
      /\ \A g \in 1..Len(data) :
           /\ ParentIdx(data, g) # 0
           /\ ParentIdx(data, ParentIdx(data, g)) = i
           /\ data[ParentIdx(data, g)].meta.collapsed = "true"
           /\ pre.data[g].meta.hidden /\ HiddenClass(pre.rows, data, g)
           => data[g].meta.hidden /\ HiddenClass(rows, data, g)

\* a root was expanded: its child is shown, the child is collapsed and the
\* grandchild is still hidden
C5_Witness ==
  \E i, c, g \in 1..Len(data) :
    /\ lastOp = [op |-> "click", arg |-> i]
    /\ data[i].meta.collapsed = "false"
    /\ pre.data[i].meta.collapsed = "true"
    /\ ParentIdx(data, c) = i /\ ParentIdx(data, g) = c
    /\ HiddenClass(pre.rows, data, c) /\ ~HiddenClass(rows, data, c)
    /\ data[c].meta.collapsed = "true"
    /\ data[g].meta.hidden /\ HiddenClass(rows, data, g)

----------------------------------------------------------------------------
(* C6 *)

\* C6: the collapsed flag of a record without children is undefined, after
\* construction and after any operations.
C6_LeafCollapsedUndefined ==
  pc = "ready" =>
    \A i \in 1..Len(data) :
      ~data[i].meta.hasChildren => data[i].meta.collapsed = Undefined

----------------------------------------------------------------------------
(* C7 *)

\* C7: right after construction every record with children is collapsed,
\* every record below level 0 is hidden and no record at level 0 is hidden.
C7_InitialFlags ==
  lastOp.op = "construct" =>
    \A i \in 1..Len(data) :
      /\ data[i].meta.hasChildren => data[i].meta.collapsed = "true"
      /\ data[i].meta.level > 0 => data[i].meta.hidden
      /\ data[i].meta.level = 0 => ~data[i].meta.hidden

----------------------------------------------------------------------------
(* C8 *)

\* C8: the label in the header cell of every record's row is the record's
\* flatName in flat mode and its name in tree mode.
C8_HeaderCellShowsModeLabel ==
  pc = "ready" =>
    \A i \in 1..Len(data) :
      rows[data[i].meta.row].text =
        IF flat THEN data[i].meta.flatName ELSE data[i].meta.name

----------------------------------------------------------------------------
(* C9 *)

\* the last two operations set flat to false and then to true, starting
\* from flat mode
FlatRoundTrip ==
  /\ lastOp = [op |-> "flat", arg |-> 1]
  /\ pre2 # NoSnapshot
  /\ pre2.flat
  /\ ~pre.flat

\* C9: from flat mode, setting flat to false and then to true leaves the
\* label in every record's header cell and in its cell array as it was.
C9_FlatRoundTripRestoresLabels ==
  FlatRoundTrip =>
    \A i \in 1..Len(data) :
      /\ data[i].label = pre2.data[i].label
      /\ rows[data[i].meta.row].text = pre2.rows[data[i].meta.row].text

\* the round trip was made, and in between a record had another label
C9_Witness ==
  /\ FlatRoundTrip
  /\ \E i \in 1..Len(data) :
       /\ pre.data[i].label # data[i].label
       /\ pre.data[i].label = data[i].meta.name
       /\ data[i].label = data[i].meta.flatName

----------------------------------------------------------------------------
(* C10 *)

\* the flat-view and tree-view events the last operation dispatched
ViewEvents ==
  SelectSeq(log, LAMBDA e :
    /\ e.kind = "event"
    /\ e.name \in {"reportal-table-hierarchy-flat-view",
                   "reportal-table-hierarchy-tree-view"})

\* C10 as stated: setting flat to the value it has dispatches no flat-view
\* or tree-view event.
C10_NoEventWhenUnchanged ==
  lastOp.op = "flat" /\ pre.flat = flat => ViewEvents = <<>>

\* C10 amended: every assignment of flat, also of the value it has and also
\* the constructor's, dispatches exactly one event on the table: flat-view
\* for true, tree-view for false.
C10_EventOnEveryAssignment ==
  lastOp.op \in {"flat", "construct"} =>
    ViewEvents =
      <<[kind |-> "event",
         name |-> IF flat THEN "reportal-table-hierarchy-flat-view"
                          ELSE "reportal-table-hierarchy-tree-view",
         target |-> SourceTarget]>>

\* flat was set to the value it had, and an event was dispatched
C10_Witness ==
  /\ lastOp.op = "flat"
  /\ pre.flat = flat
  /\ Len(ViewEvents) = 1

----------------------------------------------------------------------------
(* Search: what the claims speak of *)

Highlighted(rs, d, i) == "matched-search" \in rs[d[i].meta.row].classes

\* the string in lower case
LowerStr(str) == [k \in 1..Len(str) |-> Lower(str[k])]

\* str is a substring of the record's label of the current mode, letter case
\* ignored
LabelContains(i, str) ==
  LET label == LowerStr(IF flat THEN data[i].meta.flatName ELSE data[i].meta.name)
  IN \E a \in 1..(Len(label) + 1) : \E b \in 0..Len(label) :
       SubSeq(label, a, b) = LowerStr(str)

\* the state of a tree just built: nothing expanded, nothing highlighted
FreshTree(snap) ==
  \A i \in 1..Len(snap.data) :
    /\ snap.data[i].meta.collapsed =
         IF snap.data[i].meta.hasChildren THEN "true" ELSE Undefined
    /\ ~Highlighted(snap.rows, snap.data, i)

\* the last operation was a search
Searched == pc = "ready" /\ lastOp.op = "search"

\* the string the last search looked for
LastQuery == Queries[lastOp.arg]

----------------------------------------------------------------------------
(* C11 *)

\* C11: a search for the empty string on a freshly built tree highlights no
\* record and changes no record's collapsed flag.
C11_EmptyQueryMatchesNothing ==
  Searched /\ LastQuery = <<>> /\ FreshTree(pre) =>
    \A i \in 1..Len(data) :
      /\ ~Highlighted(rows, data, i)
      /\ data[i].meta.collapsed = pre.data[i].meta.collapsed

----------------------------------------------------------------------------
(* C12 *)

\* C12: after a search every record whose label contains the query is
\* highlighted, and every ancestor of it is expanded and highlighted.
C12_MatchesAndAncestorsRevealed ==
  Searched =>
    \A i \in 1..Len(data) :
      LabelContains(i, LastQuery) =>
        /\ Highlighted(rows, data, i)
        /\ \A a \in AncestorsIdx(data, i) :
             /\ data[a].meta.collapsed = "false"
             /\ Highlighted(rows, data, a)

\* a search matched a record at level 2 only, below two collapsed ancestors
C12_Witness ==
  /\ Searched
  /\ LastQuery # <<>>
  /\ \E i \in 1..Len(data) :
       /\ LabelContains(i, LastQuery)
       /\ \A j \in 1..Len(data) : LabelContains(j, LastQuery) => j = i
       /\ data[i].meta.level = 2
       /\ \A a \in AncestorsIdx(data, i) :
            /\ pre.data[a].meta.collapsed = "true"
            /\ ~Highlighted(pre.rows, data, a)
            /\ data[a].meta.collapsed = "false"

----------------------------------------------------------------------------
(* C13 *)

\* C13: after a search no matched record and no ancestor of a matched record
\* is hidden, neither by its hidden flag nor by the hidden class of its row.
C13_PathToMatchVisible ==
  Searched =>
    \A i \in 1..Len(data) :
      LabelContains(i, LastQuery) =>
        \A j \in {i} \cup AncestorsIdx(data, i) :
          ~data[j].meta.hidden \/ ~HiddenClass(rows, data, j)

----------------------------------------------------------------------------
(* C14 *)

\* C14: displayChildren, applied to any record in any state reached,
\* highlights every descendant of the record and changes no record and no
\* hidden class; and after a search every descendant of a matched record is
\* highlighted, the hidden flags and hidden classes being those before it.
C14_DescendantsPaintedOnly ==
  pc = "ready" =>
    /\ \A i \in 1..Len(data) :
         LET t == displayChildren(This, i)
         IN /\ \A j \in DescendantsIdx(data, i) : Highlighted(t.rows, data, j)
            /\ t.data = data
            /\ \A j \in 1..Len(data) :
                 HiddenClass(t.rows, data, j) = HiddenClass(rows, data, j)
    /\ Searched =>
         /\ \A i \in 1..Len(data) :
              LabelContains(i, LastQuery) =>
                \A j \in DescendantsIdx(data, i) : Highlighted(rows, data, j)
         /\ \A j \in 1..Len(data) :
              /\ data[j].meta.hidden = pre.data[j].meta.hidden
              /\ HiddenClass(rows, data, j) = HiddenClass(pre.rows, data, j)

\* a search matched a root only; its child was expanded and hidden before
\* the search and is so after it, and child and grandchild are highlighted now
C14_Witness ==
  /\ Searched
  /\ \E i, c, g \in 1..Len(data) :
       /\ LabelContains(i, LastQuery)
       /\ \A j \in 1..Len(data) : LabelContains(j, LastQuery) => j = i
       /\ ParentIdx(data, c) = i /\ ParentIdx(data, g) = c
       /\ pre.data[c].meta.collapsed = "false" /\ data[c].meta.collapsed = "false"
       /\ HiddenClass(pre.rows, data, c) /\ HiddenClass(rows, data, c)
       /\ ~Highlighted(pre.rows, data, c) /\ ~Highlighted(pre.rows, data, g)
       /\ Highlighted(rows, data, c) /\ Highlighted(rows, data, g)

----------------------------------------------------------------------------
(* C15 *)

\* C15: a click on a record's button flips its collapsed flag and dispatches,
\* before any hidden flag is set, the collapsed event on its row when the new
\* value is true and the uncollapsed event when it is false.
C15_EventBeforePropagation ==
  \A i \in 1..Len(data) :
    pc = "ready" /\ lastOp = [op |-> "click", arg |-> i] =>
      /\ data[i].meta.collapsed = Not(pre.data[i].meta.collapsed)
      /\ log # <<>>
      /\ log[1] = [kind |-> "event",
                   name |-> IF data[i].meta.collapsed = "true"
                            THEN "reportal-table-hierarchy-collapsed"
                            ELSE "reportal-table-hierarchy-uncollapsed",
                   target |-> data[i].meta.row]
      /\ \A k \in 1..Len(log) : log[k].kind = "hidden" => k > 1

\* a record with children was collapsed by a click: the event came first,
\* then its child was hidden
C15_Witness ==
  \E i \in 1..Len(data) :
    /\ pc = "ready" /\ lastOp = [op |-> "click", arg |-> i]
    /\ pre.data[i].meta.collapsed = "false"
    /\ data[i].meta.collapsed = "true"
    /\ Len(log) >= 2
    /\ log[1].kind = "event" /\ log[1].target = data[i].meta.row
    /\ log[2] = [kind |-> "hidden", name |-> "add",
                 target |-> data[ChildrenIdx(data, i)[1]].meta.row]

----------------------------------------------------------------------------
(* C16 *)

\* C16: after construction the rows of the table body, in document order, are
\* the rows of the records, in record order, and stay so.
C16_BodyOrderIsRecordOrder ==
  pc = "ready" =>
    source.tbody = [i \in 1..Len(data) |-> data[i].meta.row]

----------------------------------------------------------------------------
(* C17 *)

\* C17: when construction fails, no row has gained an attribute, a class or a
\* button, the table has gained no class and the rows are in their old order.
C17_FailedConstructionTouchesNothing ==
  pc = "failed" =>
    /\ rows = pre.rows
    /\ source.classes = {}
    /\ source.tbody = [k \in 1..MaxNodes |-> k]

----------------------------------------------------------------------------
(* C18 *)

\* C18: every click and every search ends without an uncaught exception.
C18_HandlersEndNormally ==
  lastOp.op \in {"click", "search"} => ~err

----------------------------------------------------------------------------
(* C19 *)

\* C19: every record with hasChildren has a record whose parent it is.
C19_HasChildrenHasChildRecord ==
  pc = "ready" =>
    \A i \in 1..Len(data) :
      data[i].meta.hasChildren =>
        \E j \in 1..Len(data) : data[j].meta.parent = data[i].meta.id

----------------------------------------------------------------------------
(* C20 *)

\* C20: the table has the class reportal-hierarchy-searching exactly when
\* search.searching is true.
C20_SearchingClassFollowsFlag ==
  pc = "ready" =>
    ("reportal-hierarchy-searching" \in source.classes <=> searching)

====
